---- MODULE Spec2Model ----
(***************************************************************************)
(* FLIF: the lossless YCoCg colour transform (src/transform/ycocg.hpp) and *)
(* the MANIAC context-tree coder (src/maniac/compound.hpp).                *)
(*                                                                         *)
(* C++ containers are 0-indexed; sequences here are 1-indexed, so element  *)
(* i of a vector v is v[i+1].  `>> 1` on a signed int is the arithmetic    *)
(* shift, i.e. floor division by two (\div floors in TLA+).                *)
(***************************************************************************)
EXTENDS Integers, Sequences, FiniteSets, TLC

VARIABLES
    srcRanges,  \* the ColorRanges handed to TransformYCoCg::init
    par,        \* TransformYCoCg::par
    ranges,     \* TransformYCoCg::ranges (the adopted srcRanges, or "null")
    tstate,     \* how far the transform got: new / rejected / ready / forward / inverse
    crPar,      \* ColorRangesYCoCg::par of the object meta() built (0: none built)
    image,      \* one pixel of the image, <<plane 0, plane 1, plane 2>>
    orig,       \* the pixel as it was before data() ran
    mm,         \* the last minmax() call: plane, prevPlanes and (minv, maxv)
    rac,        \* the RAC: the symbols an encoder wrote, and how many symbols were read
    heap,       \* the Tree objects of the caller, by tree id
    meta,       \* what the last read_tree call returned and how it got there
    coder,      \* the FinalPropertySymbolCoder instances, by instance id
    call,       \* the last call on the MANIAC coders: its arguments and results
    solo,       \* per instance: the tree and leaf store it would have if it ran alone
    ub          \* TRUE once a coder indexed its leaf store out of bounds

yvars == <<srcRanges, par, ranges, tstate, crPar, image, orig, mm>>

mvars == <<rac, heap, meta, coder, call, solo, ub>>

vars == <<srcRanges, par, ranges, tstate, crPar, image, orig, mm,
          rac, heap, meta, coder, call, solo, ub>>

---------------------------------------------------------------------------
(* Bounds of the model. *)

\* largest per-plane maximum of a source range
MaxSrc == 7
\* largest par a ColorRangesYCoCg is constructed with directly
MaxPar == 2

---------------------------------------------------------------------------
(* ycocg.hpp: pure functions *)

Max2(a, b) == IF a >= b THEN a ELSE b
Min2(a, b) == IF a <= b THEN a ELSE b
abs(x) == IF x < 0 THEN -x ELSE x

\* x >> 1 on a signed int
Shr1(x) == x \div 2

get_min_y(p) == 0

get_max_y(p) == p * 4 - 1

\* the asserts that open every get_min_* / get_max_*
AssertY(p, y) == y >= get_min_y(p) /\ y <= get_max_y(p)

get_min_co_sym(p, y) ==
    IF y < p - 1 THEN -4 - 4 * y
    ELSE IF y >= 3 * p THEN 3 + 4 * (y - 3 * p)
    ELSE -4 * p

get_min_co(p, y) ==
    IF y < p - 1 THEN -4 - 4 * y
    ELSE IF y >= 3 * p THEN 3 + 4 * (y - 4 * p)
    ELSE -4 * p

get_max_co(p, y) ==
    IF y < p - 1 THEN 2 + 4 * y
    ELSE IF y >= 3 * p THEN 4 * p - 5 - 4 * (y - 3 * p)
    ELSE 4 * p - 2

get_min_cg_loose(p, y, co) ==
    IF co < get_min_co(p, y) THEN 8 * p
    ELSE IF co > get_max_co(p, y) THEN 8 * p
    ELSE IF y < p - 1 THEN -2 - 2 * y
    ELSE IF y >= 3 * p THEN -1 - 2 * (4 * p - 1 - y)
    ELSE Max2(-4 * p + 1 + (y - 2 * p) * 2, -2 * p - (y - p + 1) * 2)

get_min_cg(p, y, co) ==
    IF co < get_min_co(p, y) THEN 8 * p
    ELSE IF co > get_max_co(p, y) THEN 8 * p
    ELSE IF y < p - 1 THEN -2 - 2 * y + (abs(co + 1) \div 2) * 2
    ELSE IF y >= 3 * p THEN -1 - 2 * (4 * p - 1 - y)
    ELSE Max2(-4 * p + 1 + (y - 2 * p) * 2,
              -2 * p - (y - p + 1) * 2 + (abs(co + 1) \div 2) * 2)

get_max_cg_copied(p, y, co) ==
    IF co < get_min_co(p, y) THEN 8 * p
    ELSE IF co > get_max_co(p, y) THEN 8 * p
    ELSE IF y < p - 1 THEN 2 * y
    ELSE IF y >= 3 * p
        THEN -1 + 2 * (4 * p - 1 - y) - ((1 + abs(co + 1)) \div 2) * 2
    ELSE Min2(2 * p - 2 + (y - p + 1) * 2,
              2 * p - 1 + (3 * p - 1 - y) * 2 - ((1 + abs(co + 1)) \div 2) * 2)

get_max_cg(p, y, co) ==
    IF co < get_min_co(p, y) THEN -8 * p
    ELSE IF co > get_max_co(p, y) THEN -8 * p
    ELSE IF y < p - 1 THEN 2 * y
    ELSE IF y >= 3 * p
        THEN -1 + 2 * (4 * p - 1 - y) - ((1 + abs(co + 1)) \div 2) * 2
    ELSE Min2(2 * p - 2 + (y - p + 1) * 2,
              2 * p - 1 + (3 * p - 1 - y) * 2 - ((1 + abs(co + 1)) \div 2) * 2)

\* ColorRangesYCoCg::min / max for planes 0..2 (plane p is 0-based)
ColorRangesYCoCg_min(p) ==
    CASE p = 0 -> 0
      [] p = 1 -> -4 * crPar
      [] p = 2 -> -4 * crPar

ColorRangesYCoCg_max(p) ==
    CASE p = 0 -> 4 * crPar - 1
      [] p = 1 -> 4 * crPar - 2
      [] p = 2 -> 4 * crPar - 2

\* ColorRangesYCoCg::minmax(p, pp, minv, maxv) for planes 0..2: <<minv, maxv>>
minmax(p, pp) ==
    IF p = 1 THEN <<get_min_co(crPar, pp[1]), get_max_co(crPar, pp[1])>>
    ELSE IF p = 2 THEN <<get_min_cg(crPar, pp[1], pp[2]), get_max_cg(crPar, pp[1], pp[2])>>
    ELSE <<0, get_max_y(crPar)>>

\* the macro clip(x,l,u)
clip_low(x, l, u) == IF x < l THEN l ELSE x

clip(x, l, u) == IF x < l THEN l ELSE IF x > u THEN u ELSE x

\* par as init derives it from the largest maximum
ParOf_nooffset(m) == m \div 4

ParOf(m) == m \div 4 + 1

\* the body of data()'s loop: one pixel RGB -> YCoCg
Forward(px) ==
    LET R == px[1]
        G == px[2]
        B == px[3]
    IN  << Shr1(Shr1(R + B) + G), (R - B) - 1, (Shr1(R + B) - G) - 1 >>

Inverse_floor(px, max) ==
    LET Y  == px[1]
        Co == px[2]
        Cg == px[3]
        R  == Y + Shr1(Cg + 2) + Shr1(Co + 2)
        G  == Y - Shr1(Cg)
        B  == Y + Shr1(Cg + 2) - Shr1(Co + 1)
    IN  << clip(R, 0, max[1]), clip(G, 0, max[2]), clip(B, 0, max[3]) >>

\* the body of invData()'s loop: one pixel YCoCg -> RGB, clipped to max[0..2]
Inverse(px, max) ==
    LET Y  == px[1]
        Co == px[2]
        Cg == px[3]
        R  == Y + Shr1(Cg + 2) + Shr1(Co + 2)
        G  == Y - Shr1(Cg + 1)
        B  == Y + Shr1(Cg + 2) - Shr1(Co + 1)
    IN  << clip(R, 0, max[1]), clip(G, 0, max[2]), clip(B, 0, max[3]) >>

---------------------------------------------------------------------------
(* compound.hpp: data *)

\* upper end of the range of property 0
PropMax == 2
\* number of raw symbols of a tree's stream that are not zero padding
StreamLen == 5
\* number of symbols a coder may read after the tree
MaxReads == 3
\* CONTEXT_TREE_MAX_COUNT, scaled down
CONTEXT_TREE_MAX_COUNT == 2
\* the largest value of a bit chance (12 bits in the source, scaled down)
ChanceMax == 2
\* largest number of inner nodes of a tree handed to write_tree
MaxInner == 2

CONTEXT_TREE_MIN_COUNT == 1

\* MetaPropertySymbolCoder::range, one (first, second) pair per property
range == << <<0, PropMax>>, <<0, 1>> >>

\* MetaPropertySymbolCoder::nb_properties and FinalPropertySymbolCoder::nb_properties
nb_properties == Len(range)

\* PropertyDecisionNode(int p=-1, int s=0, int c=0)
PropertyDecisionNode(p, s, c) ==
    [property |-> p, count |-> 0, splitval |-> s, childID |-> c, leafID |-> 0]

DefaultNode == PropertyDecisionNode(-1, 0, 0)

\* Tree::Tree(): one default node
NewTree == << DefaultNode >>

\* a FinalCompoundSymbolChances as its default constructor leaves it: one bit
\* chance, at the middle of its range
NewChances == (ChanceMax + 1) \div 2

\* BitChance::put(bit, table): the chance moves towards the observed bit
BitChance_put(ch, bit) ==
    IF bit THEN Min2(ch + 1, ChanceMax) ELSE Max2(ch - 1, 1)

\* raw symbols: enough to decode every value of every range read
RawSyms == 0..Max2(nb_properties,
                   Max2(CONTEXT_TREE_MAX_COUNT - CONTEXT_TREE_MIN_COUNT, PropMax - 1))

\* the next raw symbol of the RAC's input (zeros once the input has ended)
RacPeek(r) == IF r.pos < Len(r.stream) THEN r.stream[r.pos + 1] ELSE 0

RacSkip(r) == [r EXCEPT !.pos = @ + 1]

\* RAC::read_12bit_chance(chance): one bit off the stream
read_12bit_chance(r, chance) == [bit |-> (RacPeek(r) % 2) = 1, rac |-> RacSkip(r)]

\* SimpleSymbolCoder::read_int(min, max): a value of [min, max]; nothing is
\* read when min = max
SimpleSymbolCoder_read_int(r, min, max) ==
    IF min = max THEN [val |-> min, rac |-> r]
    ELSE [val |-> min + (RacPeek(r) % (max - min + 1)), rac |-> RacSkip(r)]

\* SimpleSymbolCoder::write_int(min, max, val): the symbols appended to the stream
SimpleSymbolCoder_write_int(min, max, val) ==
    IF min = max THEN << >> ELSE << val - min >>

\* FinalCompoundSymbolBitCoder::read(type, i): decode one bit with the chance,
\* then update the chance with the bit
FinalCompoundSymbolBitCoder_read(r, chances) ==
    LET b == read_12bit_chance(r, chances)
    IN  [bit |-> b.bit, rac |-> b.rac, chances |-> BitChance_put(chances, b.bit)]

\* reader<bits>(bitCoder, min, max): binary partition of [min, max], one coded
\* bit per halving
RECURSIVE reader_range(_, _, _, _)
reader_range(r, chances, min, max) ==
    IF min = max THEN [val |-> min, rac |-> r, chances |-> chances]
    ELSE LET b   == FinalCompoundSymbolBitCoder_read(r, chances)
             mid == (min + max) \div 2
         IN  IF b.bit THEN reader_range(b.rac, b.chances, mid + 1, max)
             ELSE reader_range(b.rac, b.chances, min, mid)

\* reader(bitCoder, nbits): nbits coded bits, least significant first
RECURSIVE reader_bits(_, _, _)
reader_bits(r, chances, nbits) ==
    IF nbits = 0 THEN [val |-> 0, rac |-> r, chances |-> chances]
    ELSE LET b    == FinalCompoundSymbolBitCoder_read(r, chances)
             rest == reader_bits(b.rac, b.chances, nbits - 1)
         IN  [rest EXCEPT !.val = 2 * @ + (IF b.bit THEN 1 ELSE 0)]

\* FinalCompoundSymbolCoder::read_int(chancesIn, min, max)
FinalCompoundSymbolCoder_read_int(r, chances, min, max) ==
    reader_range(r, chances, min, max)

\* FinalCompoundSymbolCoder::read_int(chancesIn, nbits)
FinalCompoundSymbolCoder_read_bits(r, chances, nbits) ==
    reader_bits(r, chances, nbits)

\* element i (0-based) of a vector
At(v, i) == v[i + 1]

---------------------------------------------------------------------------
(* compound.hpp: MetaPropertySymbolCoder::read_subtree / read_tree *)

\* if (oldmin >= oldmax): the split space of the property is exhausted
InvalidRange(oldmin, oldmax) == oldmin >= oldmax

\* if (!read_subtree(...)) return false;
SubtreeFailed_ignored(r) == FALSE

SubtreeFailed(r) == ~r.ok

\* subrange[p].first = splitval+1, for the "> splitval" subtree
GreaterFirst_same(splitval) == splitval

GreaterFirst(splitval) == splitval + 1

\* subrange[p].second = splitval, for the "<= splitval" subtree
LessSecond_above(splitval) == splitval + 1

LessSecond(splitval) == splitval

\* the state read_subtree works on: the tree, the subrange, the RAC, and what
\* is reported of the run (ok: the value returned; failAt: the number of
\* symbols consumed when "Invalid tree" was printed, -1 if never; depth: the
\* deepest recursion reached)
RECURSIVE read_subtree(_, _, _)
read_subtree(pos, st, d) ==
    LET rp == SimpleSymbolCoder_read_int(st.rac, 0, nb_properties)
        p  == rp.val - 1
        s1 == [st EXCEPT !.tree[pos + 1].property = p,
                         !.rac = rp.rac,
                         !.depth = Max2(@, d)]
    IN  IF p = -1 THEN [s1 EXCEPT !.ok = TRUE]
        ELSE
        LET oldmin == st.subrange[p + 1][1]
            oldmax == st.subrange[p + 1][2]
        IN  IF InvalidRange(oldmin, oldmax)
            THEN [s1 EXCEPT !.ok = FALSE, !.failAt = rp.rac.pos]
            ELSE
            LET rc == SimpleSymbolCoder_read_int(rp.rac, CONTEXT_TREE_MIN_COUNT,
                                                 CONTEXT_TREE_MAX_COUNT)
                rs == SimpleSymbolCoder_read_int(rc.rac, oldmin, oldmax - 1)
                splitval == rs.val
                childID  == Len(s1.tree)
                n  == [s1.tree[pos + 1] EXCEPT !.count = rc.val,
                                               !.splitval = splitval,
                                               !.childID = childID]
                t2 == Append(Append([s1.tree EXCEPT ![pos + 1] = n], DefaultNode),
                             DefaultNode)
                sA == [s1 EXCEPT !.tree = t2,
                                 !.rac = rs.rac,
                                 !.subrange[p + 1][1] = GreaterFirst(splitval)]
                a  == read_subtree(childID, sA, d + 1)
            IN  IF SubtreeFailed(a) THEN [a EXCEPT !.ok = FALSE]
                ELSE
                LET sB == [a EXCEPT !.subrange[p + 1] = <<oldmin, LessSecond(splitval)>>]
                    b  == read_subtree(childID + 1, sB, d + 1)
                IN  IF SubtreeFailed(b) THEN [b EXCEPT !.ok = FALSE]
                    ELSE [b EXCEPT !.ok = TRUE, !.subrange[p + 1][2] = oldmax]

\* tree.clear()
Clear_keep(tree) == tree

Clear(tree) == << >>

\* bool MetaPropertySymbolCoder::read_tree(Tree &tree)
read_tree(r, tree) ==
    read_subtree(0, [tree |-> Append(Clear(tree), DefaultNode), subrange |-> range,
                     rac |-> r, ok |-> TRUE, failAt |-> -1, depth |-> 0], 1)

---------------------------------------------------------------------------
(* compound_enc.hpp (not among the sources): write_subtree / write_tree,   *)
(* after the wire format of the specification                              *)

RECURSIVE write_subtree(_, _, _)
write_subtree(pos, subrange, tree) ==
    LET n == At(tree, pos)
        p == n.property
        head == SimpleSymbolCoder_write_int(0, nb_properties, p + 1)
    IN  IF p = -1 THEN head
        ELSE
        LET oldmin == subrange[p + 1][1]
            oldmax == subrange[p + 1][2]
        IN  head
            \o SimpleSymbolCoder_write_int(CONTEXT_TREE_MIN_COUNT, CONTEXT_TREE_MAX_COUNT,
                                           n.count)
            \o SimpleSymbolCoder_write_int(oldmin, oldmax - 1, n.splitval)
            \o write_subtree(n.childID,
                             [subrange EXCEPT ![p + 1][1] = n.splitval + 1], tree)
            \o write_subtree(n.childID + 1,
                             [subrange EXCEPT ![p + 1][2] = n.splitval], tree)

write_tree(tree) == write_subtree(0, range, tree)

---------------------------------------------------------------------------
(* compound.hpp: FinalPropertySymbolCoder::find_leaf *)

\* properties[inner_node[pos].property] > inner_node[pos].splitval
GoesGreater_eq(v, splitval) == v >= splitval

GoesGreater(v, splitval) == v > splitval

\* the branch count > 0: inner_node[pos].count--
VisitPending(tree, pos) == [tree EXCEPT ![pos + 1].count = @ - 1]

\* the branch count == 0: the node is activated, its leaf is copied to the
\* end of the leaf store, and its two children get the old and the new leaf
SplitNode_fresh(tree, leaf_node, pos) ==
    LET n        == At(tree, pos)
        old_leaf == n.leafID
        new_leaf == Len(leaf_node)
    IN  [tree |-> [tree EXCEPT ![pos + 1].count = @ - 1,
                               ![n.childID + 1].leafID = old_leaf,
                               ![n.childID + 2].leafID = new_leaf],
         leaf_node |-> Append(leaf_node, NewChances)]

SplitNode_double(tree, leaf_node, pos) ==
    LET n          == At(tree, pos)
        old_leaf   == n.leafID
        new_leaf   == Len(leaf_node)
        resultCopy == At(leaf_node, old_leaf)
    IN  [tree |-> [tree EXCEPT ![pos + 1].count = @ - 1,
                               ![n.childID + 1].leafID = old_leaf,
                               ![n.childID + 2].leafID = new_leaf],
         leaf_node |-> Append(Append(leaf_node, resultCopy), resultCopy)]

SplitNode_shared(tree, leaf_node, pos) ==
    LET n          == At(tree, pos)
        old_leaf   == n.leafID
        resultCopy == At(leaf_node, old_leaf)
    IN  [tree |-> [tree EXCEPT ![pos + 1].count = @ - 1,
                               ![n.childID + 1].leafID = old_leaf,
                               ![n.childID + 2].leafID = old_leaf],
         leaf_node |-> Append(leaf_node, resultCopy)]

SplitNode_swapped(tree, leaf_node, pos) ==
    LET n          == At(tree, pos)
        old_leaf   == n.leafID
        new_leaf   == Len(leaf_node)
        resultCopy == At(leaf_node, old_leaf)
    IN  [tree |-> [tree EXCEPT ![pos + 1].count = @ - 1,
                               ![n.childID + 1].leafID = new_leaf,
                               ![n.childID + 2].leafID = old_leaf],
         leaf_node |-> Append(leaf_node, resultCopy)]

SplitNode(tree, leaf_node, pos) ==
    LET n          == At(tree, pos)
        old_leaf   == n.leafID
        new_leaf   == Len(leaf_node)
        resultCopy == At(leaf_node, old_leaf)
    IN  [tree |-> [tree EXCEPT ![pos + 1].count = @ - 1,
                               ![n.childID + 1].leafID = old_leaf,
                               ![n.childID + 2].leafID = new_leaf],
         leaf_node |-> Append(leaf_node, resultCopy)]

\* pos = inner_node[pos].childID+1, for the "<= splitval" branch
LessChild_skip(childID) == childID + 2

LessChild(childID) == childID + 1

\* find_leaf from position pos on: the tree and the leaf store as the call
\* leaves them, the index of the leaf whose reference it returns, and the
\* positions the loop visited from pos on.  ub: the call indexed inner_node,
\* properties or leaf_node at or past its size.
RECURSIVE find_leaf_from(_, _, _, _)
find_leaf_from(pos, tree, leaf_node, properties) ==
    IF pos >= Len(tree)
    THEN [tree |-> tree, leaf_node |-> leaf_node, leaf |-> -1, ub |-> TRUE,
          path |-> << pos >>]
    ELSE
    LET n == At(tree, pos)
    IN  IF n.property = -1
        THEN [tree |-> tree, leaf_node |-> leaf_node, leaf |-> n.leafID,
              ub |-> n.leafID >= Len(leaf_node), path |-> << pos >>]
        ELSE IF n.count < 0
        THEN IF n.property >= Len(properties)
             THEN [tree |-> tree, leaf_node |-> leaf_node, leaf |-> -1, ub |-> TRUE,
                   path |-> << pos >>]
             ELSE LET r == IF GoesGreater(At(properties, n.property), n.splitval)
                           THEN find_leaf_from(n.childID, tree, leaf_node, properties)
                           ELSE find_leaf_from(LessChild(n.childID), tree, leaf_node,
                                               properties)
                  IN  [r EXCEPT !.path = << pos >> \o @]
        ELSE IF n.count > 0
        THEN [tree |-> VisitPending(tree, pos), leaf_node |-> leaf_node,
              leaf |-> n.leafID, ub |-> n.leafID >= Len(leaf_node), path |-> << pos >>]
        ELSE IF \/ n.leafID >= Len(leaf_node)
                \/ n.childID + 1 >= Len(tree)
                \/ n.property >= Len(properties)
        THEN [tree |-> tree, leaf_node |-> leaf_node, leaf |-> n.leafID, ub |-> TRUE,
              path |-> << pos >>]
        ELSE LET s == SplitNode(tree, leaf_node, pos)
             IN  [tree |-> s.tree, leaf_node |-> s.leaf_node,
                  leaf |-> IF GoesGreater(At(properties, n.property), n.splitval)
                           THEN n.leafID
                           ELSE Len(leaf_node),
                  ub |-> FALSE, path |-> << pos >>]

find_leaf(tree, leaf_node, properties) == find_leaf_from(0, tree, leaf_node, properties)

\* if (min == max) { return min; }
ShortCircuit_never(min, max) == FALSE

ShortCircuit(min, max) == min = max

\* inner_node(treeIn): the Tree the instance is bound to
BindTree_first(t) == 1

BindTree(t) == t

---------------------------------------------------------------------------
(* Inputs and initial values *)

\* ids of the Tree objects of the caller, and of the coder instances
TreeIds == {1, 2}
Inst == {1, 2}

\* the Properties vectors at the corners of range
PropertyVectors ==
    { <<a, b>> : a \in {range[1][1], range[1][2]}, b \in {range[2][1], range[2][2]} }

\* the (min, max) pairs read_int is called with
MinMaxPairs == { <<0, 0>>, <<0, 1>> }

\* the widths read_int(properties, nbits) is called with
BitWidths == {1}

\* what the RAC may deliver to one read_tree call (zeros follow), and to one
\* read_int call
Streams == [1..StreamLen -> RawSyms]
BitChunks == [1..1 -> {0, 1}]

\* a RAC about to deliver the symbols s
Feed(s) == [stream |-> s, pos |-> 0]

\* what a Tree argument may hold before read_tree is called on it
PriorTrees ==
    { NewTree,
      << [property |-> 0, count |-> -1, splitval |-> 1, childID |-> 1, leafID |-> 0],
         [property |-> -1, count |-> 0, splitval |-> 0, childID |-> 0, leafID |-> 0],
         [property |-> -1, count |-> 0, splitval |-> 0, childID |-> 0, leafID |-> 1] >> }

\* the ColorRanges a ColorRangesYCoCg built on its own wraps
DefaultSrc == [numPlanes |-> 3, min |-> <<0, 0, 0>>, max |-> <<1, 1, 1>>]

NoPixel == <<>>
NoQuery == [p |-> -1, pp |-> <<>>, minv |-> 0, maxv |-> 0]

NoMeta == [called |-> FALSE, ret |-> FALSE, failAt |-> -1, depth |-> 0, from |-> 0, to |-> 0]
NoCoder == [built |-> FALSE, treeIn |-> 0, inner_node |-> 0, leaf_node |-> << >>]
NoSolo == [tree |-> << >>, leaf_node |-> << >>, leaf |-> -1, ub |-> FALSE]
NoCall == [op |-> "none", inst |-> 0, properties |-> << >>, min |-> 0, max |-> 0,
           nbits |-> 0, leaf |-> -1, ret |-> 0, found |-> << >>]

\* nothing of the transform is in use
YIdle ==
    /\ srcRanges = DefaultSrc
    /\ par = 0
    /\ ranges = "null"
    /\ tstate = "idle"
    /\ crPar = 0
    /\ image = NoPixel
    /\ orig = NoPixel
    /\ mm = NoQuery

\* nothing of the coders is in use
MIdle ==
    /\ rac = [stream |-> << >>, pos |-> 0]
    /\ heap = [t \in TreeIds |-> NewTree]
    /\ meta = NoMeta
    /\ coder = [i \in Inst |-> NoCoder]
    /\ call = NoCall
    /\ solo = [i \in Inst |-> NoSolo]
    /\ ub = FALSE

---------------------------------------------------------------------------
(* ycocg.hpp: the transform as a state machine *)

\* per-plane (min, max) pairs a source range is drawn from
PlaneRanges ==
    { <<lo, hi>> : lo \in {-1, 0}, hi \in 0..MaxSrc } \cup { <<1, 1>>, <<1, 2>> }

\* source ColorRanges: numPlanes planes, each with its min and max
SrcRangeSet ==
    { [numPlanes |-> 2, min |-> <<a[1], b[1]>>, max |-> <<a[2], b[2]>>] :
        a \in {<<0, 1>>}, b \in {<<0, 1>>, <<0, MaxSrc>>} }
    \cup
    { [numPlanes |-> 3, min |-> <<a[1], b[1], c[1]>>, max |-> <<a[2], b[2], c[2]>>] :
        a \in PlaneRanges, b \in PlaneRanges, c \in PlaneRanges }

InitYCoCg ==
    /\ srcRanges \in SrcRangeSet
    /\ par = 0
    /\ ranges = "null"
    /\ tstate = "new"
    /\ crPar = 0
    /\ image = NoPixel
    /\ orig = NoPixel
    /\ mm = NoQuery
    /\ MIdle

\* init: srcRanges->min(0) == srcRanges->max(0) || ... (1) ... || ... (2) ...
Degenerate_all(r) ==
    /\ r.min[1] = r.max[1]
    /\ r.min[2] = r.max[2]
    /\ r.min[3] = r.max[3]

Degenerate(r) ==
    \/ r.min[1] = r.max[1]
    \/ r.min[2] = r.max[2]
    \/ r.min[3] = r.max[3]

\* bool TransformYCoCg::init(const ColorRanges *srcRanges)
TransformYCoCg_init ==
    /\ tstate = "new"
    /\ IF srcRanges.numPlanes < 3
       THEN tstate' = "rejected" /\ UNCHANGED <<par, ranges>>
       ELSE IF srcRanges.min[1] < 0 \/ srcRanges.min[2] < 0 \/ srcRanges.min[3] < 0
       THEN tstate' = "rejected" /\ UNCHANGED <<par, ranges>>
       ELSE IF Degenerate(srcRanges)
       THEN tstate' = "rejected" /\ UNCHANGED <<par, ranges>>
       ELSE /\ par' = ParOf(Max2(Max2(srcRanges.max[1], srcRanges.max[2]), srcRanges.max[3]))
            /\ ranges' = srcRanges
            /\ tstate' = "ready"
    /\ UNCHANGED <<srcRanges, crPar, image, orig, mm>>
    /\ UNCHANGED mvars

\* const ColorRanges *TransformYCoCg::meta(Images&, const ColorRanges *srcRanges)
TransformYCoCg_meta ==
    /\ tstate = "ready"
    /\ crPar = 0
    /\ crPar' = par
    /\ UNCHANGED <<srcRanges, par, ranges, tstate, image, orig, mm>>
    /\ UNCHANGED mvars

\* pixels the encoder may hold: every plane inside its source range
PixelsIn(r) ==
    { <<a, b, c>> : a \in Max2(0, r.min[1])..r.max[1],
                    b \in Max2(0, r.min[2])..r.max[2],
                    c \in Max2(0, r.min[3])..r.max[3] }

\* void TransformYCoCg::data(Images& images), on an image of one pixel
TransformYCoCg_data ==
    /\ tstate = "ready"
    /\ crPar # 0
    /\ \E px \in PixelsIn(ranges) :
        /\ orig' = px
        /\ image' = Forward(px)
    /\ tstate' = "forward"
    /\ UNCHANGED <<srcRanges, par, ranges, crPar, mm>>
    /\ UNCHANGED mvars

\* ColorRangesYCoCg::minmax(p, pp, minv, maxv)
ColorRangesYCoCg_minmax(p, pp) ==
    /\ mm' = [p |-> p, pp |-> pp, minv |-> minmax(p, pp)[1], maxv |-> minmax(p, pp)[2]]
    /\ UNCHANGED <<srcRanges, par, ranges, tstate, crPar, image, orig>>
    /\ UNCHANGED mvars

\* the coder asks for the range of plane p of the pixel it is about to code
CoderQuery ==
    /\ tstate = "forward"
    /\ \E p \in 0..2 : ColorRangesYCoCg_minmax(p, image)

\* void TransformYCoCg::invData(Images& images), on an image of one pixel
TransformYCoCg_invData ==
    /\ tstate = "forward"
    /\ image' = Inverse(image, <<ranges.max[1], ranges.max[2], ranges.max[3]>>)
    /\ tstate' = "inverse"
    /\ UNCHANGED <<srcRanges, par, ranges, crPar, orig, mm>>
    /\ UNCHANGED mvars

NextYCoCg ==
    \/ TransformYCoCg_init
    \/ TransformYCoCg_meta
    \/ TransformYCoCg_data
    \/ CoderQuery
    \/ TransformYCoCg_invData

SpecYCoCg == InitYCoCg /\ [][NextYCoCg]_vars

---------------------------------------------------------------------------
(* ycocg.hpp: the dependent ranges queried on their own, for every        *)
(* (Y, Co) inside the static bounds of a ColorRangesYCoCg(par, ranges).    *)

\* ColorRangesYCoCg(int parIn, const ColorRanges *rangesIn)
InitRange ==
    /\ srcRanges = DefaultSrc
    /\ par = 0
    /\ ranges = "null"
    /\ tstate = "query"
    /\ crPar \in 1..MaxPar
    /\ image = NoPixel
    /\ orig = NoPixel
    /\ mm = NoQuery
    /\ MIdle

RangeQuery ==
    /\ tstate = "query"
    /\ \E p \in 0..2 :
       \E y \in get_min_y(crPar)..get_max_y(crPar) :
       \E co \in (ColorRangesYCoCg_min(1) - 1)..(ColorRangesYCoCg_max(1) + 1) :
          ColorRangesYCoCg_minmax(p, <<y, co>>)

NextRange == RangeQuery

SpecRange == InitRange /\ [][NextRange]_vars

---------------------------------------------------------------------------
(* ycocg.hpp: invData on planes that hold anything (lossy or partial decode) *)

\* sources init accepts, each plane from 0 to 1 or to MaxSrc
LossySrc ==
    { [numPlanes |-> 3, min |-> <<0, 0, 0>>, max |-> <<a, b, c>>] :
        a \in {1, MaxSrc}, b \in {1, MaxSrc}, c \in {1, MaxSrc} }

\* what a plane may hold after a partial or corrupt decode: also values
\* outside every range ColorRangesYCoCg declares
StoredVals == (0 - (MaxSrc + 2))..(MaxSrc + 2)

InitLossy ==
    /\ srcRanges \in LossySrc
    /\ par = 0
    /\ ranges = "null"
    /\ tstate = "new"
    /\ crPar = 0
    /\ image = NoPixel
    /\ orig = NoPixel
    /\ mm = NoQuery
    /\ MIdle

\* the decoder has filled the three planes of a pixel; orig keeps what it stored
PartialDecode ==
    /\ tstate = "ready"
    /\ crPar # 0
    /\ \E y \in StoredVals : \E co \in StoredVals : \E cg \in StoredVals :
          /\ image' = <<y, co, cg>>
          /\ orig' = <<y, co, cg>>
    /\ tstate' = "forward"
    /\ UNCHANGED <<srcRanges, par, ranges, crPar, mm>>
    /\ UNCHANGED mvars

NextLossy ==
    \/ TransformYCoCg_init
    \/ TransformYCoCg_meta
    \/ PartialDecode
    \/ TransformYCoCg_invData

SpecLossy == InitLossy /\ [][NextLossy]_vars

---------------------------------------------------------------------------
(* compound.hpp: the coders as a state machine *)

\* bool MetaPropertySymbolCoder::read_tree(Tree &tree), tree being heap[t] and
\* s the symbols the RAC delivers
MetaPropertySymbolCoder_read_tree(t, s) ==
    LET r == read_tree(Feed(s), heap[t])
    IN  /\ heap' = [heap EXCEPT ![t] = r.tree]
        /\ rac' = [rac EXCEPT !.pos = @ + r.rac.pos]
        /\ meta' = [called |-> TRUE, ret |-> r.ok,
                    failAt |-> IF r.failAt < 0 THEN -1 ELSE rac.pos + r.failAt,
                    depth |-> r.depth, from |-> rac.pos, to |-> rac.pos + r.rac.pos]
        /\ call' = [NoCall EXCEPT !.op = "read_tree", !.inst = t]
        /\ UNCHANGED <<coder, solo, ub>>
        /\ UNCHANGED yvars

\* FinalPropertySymbolCoder::FinalPropertySymbolCoder(racIn, rangeIn, treeIn),
\* treeIn being heap[t]
FinalPropertySymbolCoder_new(i, t) ==
    /\ ~coder[i].built
    /\ ~ub
    /\ heap' = [heap EXCEPT ![BindTree(t)][1].leafID = 0]
    /\ coder' = [coder EXCEPT ![i] = [built |-> TRUE, treeIn |-> t,
                                      inner_node |-> BindTree(t),
                                      leaf_node |-> << NewChances >>]]
    /\ solo' = [solo EXCEPT ![i] = [tree |-> [heap[t] EXCEPT ![1].leafID = 0],
                                    leaf_node |-> << NewChances >>,
                                    leaf |-> -1, ub |-> FALSE]]
    /\ call' = [NoCall EXCEPT !.op = "new", !.inst = i]
    /\ UNCHANGED <<rac, meta, ub>>
    /\ UNCHANGED yvars

\* instance i alone: the same find_leaf on its own copy of the tree
SoloStep(i, properties) ==
    LET g == find_leaf(solo[i].tree, solo[i].leaf_node, properties)
    IN  IF solo[i].ub \/ g.ub
        THEN [solo EXCEPT ![i].ub = TRUE]
        ELSE [solo EXCEPT ![i] = [tree |-> g.tree, leaf_node |-> g.leaf_node,
                                  leaf |-> g.leaf, ub |-> FALSE]]

\* find_leaf(properties), then coder.read_int(chances, ...) on the leaf found,
\* s being the symbols the RAC delivers
Coded(i, op, properties, min, max, nbits, s) ==
    LET t == coder[i].inner_node
        f == find_leaf(heap[t], coder[i].leaf_node, properties)
    IN  IF f.ub
        THEN /\ ub' = TRUE
             /\ call' = [op |-> op, inst |-> i, properties |-> properties, min |-> min,
                         max |-> max, nbits |-> nbits, leaf |-> f.leaf, ret |-> 0,
                         found |-> << >>]
             /\ UNCHANGED <<rac, heap, meta, coder, solo>>
        ELSE LET c == IF op = "read_int"
                      THEN FinalCompoundSymbolCoder_read_int(
                               Feed(s), At(f.leaf_node, f.leaf), min, max)
                      ELSE FinalCompoundSymbolCoder_read_bits(
                               Feed(s), At(f.leaf_node, f.leaf), nbits)
             IN  /\ heap' = [heap EXCEPT ![t] = f.tree]
                 /\ coder' = [coder EXCEPT ![i].leaf_node =
                                 [f.leaf_node EXCEPT ![f.leaf + 1] = c.chances]]
                 /\ rac' = [rac EXCEPT !.pos = @ + c.rac.pos]
                 /\ call' = [op |-> op, inst |-> i, properties |-> properties,
                             min |-> min, max |-> max, nbits |-> nbits,
                             leaf |-> f.leaf, ret |-> c.val, found |-> f.leaf_node]
                 /\ solo' = SoloStep(i, properties)
                 /\ UNCHANGED <<meta, ub>>

\* int FinalPropertySymbolCoder::read_int(const Properties &properties, int min, int max)
FinalPropertySymbolCoder_read_int(i, properties, min, max, s) ==
    /\ coder[i].built
    /\ ~ub
    /\ IF ShortCircuit(min, max)
       THEN /\ call' = [op |-> "read_int", inst |-> i, properties |-> properties,
                        min |-> min, max |-> max, nbits |-> 0, leaf |-> -1,
                        ret |-> min, found |-> << >>]
            /\ UNCHANGED <<rac, heap, meta, coder, solo, ub>>
       ELSE /\ rac.pos < meta.to + MaxReads
            /\ Coded(i, "read_int", properties, min, max, 0, s)
    /\ UNCHANGED yvars

\* int FinalPropertySymbolCoder::read_int(const Properties &properties, int nbits)
FinalPropertySymbolCoder_read_bits(i, properties, nbits, s) ==
    /\ coder[i].built
    /\ ~ub
    /\ rac.pos < meta.to + MaxReads
    /\ Coded(i, "read_bits", properties, 0, 0, nbits, s)
    /\ UNCHANGED yvars

\* One decoding session: the tree is read off the stream into heap[1], then a
\* coder is built over it and reads integers.
Init ==
    /\ YIdle
    /\ rac = Feed(<< >>)
    /\ heap \in { [t \in TreeIds |-> IF t = 1 THEN pt ELSE NewTree] : pt \in PriorTrees }
    /\ meta = NoMeta
    /\ coder = [i \in Inst |-> NoCoder]
    /\ call = NoCall
    /\ solo = [i \in Inst |-> NoSolo]
    /\ ub = FALSE

DecodeTree ==
    /\ call.op = "none"
    /\ \E s \in Streams : MetaPropertySymbolCoder_read_tree(1, s)

Construct ==
    /\ meta.called /\ meta.ret
    /\ FinalPropertySymbolCoder_new(1, 1)

ReadInt ==
    \E properties \in PropertyVectors : \E range_ \in MinMaxPairs : \E s \in BitChunks :
        FinalPropertySymbolCoder_read_int(1, properties, range_[1], range_[2], s)

ReadBits ==
    \E properties \in PropertyVectors : \E nbits \in BitWidths : \E s \in BitChunks :
        FinalPropertySymbolCoder_read_bits(1, properties, nbits, s)

Next ==
    \/ DecodeTree
    \/ Construct
    \/ ReadInt
    \/ ReadBits

Spec == Init /\ [][Next]_vars

---------------------------------------------------------------------------
(* The tree written by the encoder and read back by the decoder *)

\* a tree before it is laid out in a vector: a leaf, or an inner node with its
\* "> splitval" subtree gt and its "<= splitval" subtree le
LeafShape == [property |-> -1]

\* the trees of at most k inner nodes whose counts are within
\* [CONTEXT_TREE_MIN_COUNT, CONTEXT_TREE_MAX_COUNT] and whose splitvals are
\* within the subrange the ancestors leave
RECURSIVE Shapes(_, _)
Shapes(k, subrange) ==
    {LeafShape} \cup
    IF k = 0 THEN {}
    ELSE UNION { UNION { UNION { UNION {
            { [property |-> p, count |-> c, splitval |-> sv, gt |-> g, le |-> l] :
                g \in Shapes(k1, [subrange EXCEPT ![p + 1][1] = sv + 1]),
                l \in Shapes(k - 1 - k1, [subrange EXCEPT ![p + 1][2] = sv]) }
            : k1 \in 0..(k - 1) }
            : sv \in subrange[p + 1][1]..(subrange[p + 1][2] - 1) }
            : c \in CONTEXT_TREE_MIN_COUNT..CONTEXT_TREE_MAX_COUNT }
            : p \in 0..(nb_properties - 1) }

\* the shape laid out from position pos on: the two children of a node are
\* appended together when the node is reached, the gt subtree is laid out
\* before the le subtree, and a leaf is a default-constructed node
RECURSIVE Place(_, _, _)
Place(pos, shape, tree) ==
    IF shape.property = -1 THEN tree
    ELSE LET childID == Len(tree)
             n  == [property |-> shape.property, count |-> shape.count,
                    splitval |-> shape.splitval, childID |-> childID, leafID |-> 0]
             t1 == Append(Append([tree EXCEPT ![pos + 1] = n], DefaultNode), DefaultNode)
             t2 == Place(childID, shape.gt, t1)
         IN  Place(childID + 1, shape.le, t2)

Layout(shape) == Place(0, shape, NewTree)

\* the trees handed to write_tree
ConventionTrees == { Layout(sh) : sh \in Shapes(MaxInner, range) }

\* void MetaPropertySymbolCoder::write_tree(const Tree &tree), tree being heap[t]
MetaPropertySymbolCoder_write_tree(t) ==
    /\ rac' = Feed(write_tree(heap[t]))
    /\ call' = [NoCall EXCEPT !.op = "write_tree", !.inst = t]
    /\ UNCHANGED <<heap, meta, coder, solo, ub>>
    /\ UNCHANGED yvars

InitRT ==
    /\ YIdle
    /\ rac = Feed(<< >>)
    /\ heap \in { [t \in TreeIds |-> IF t = 1 THEN ct ELSE pt] :
                    ct \in ConventionTrees, pt \in PriorTrees }
    /\ meta = NoMeta
    /\ coder = [i \in Inst |-> NoCoder]
    /\ call = NoCall
    /\ solo = [i \in Inst |-> NoSolo]
    /\ ub = FALSE

\* the encoder writes heap[1]
EncodeTree ==
    /\ call.op = "none"
    /\ MetaPropertySymbolCoder_write_tree(1)

\* the decoder reads the stream just written into heap[2]
DecodeBack ==
    /\ call.op = "write_tree"
    /\ MetaPropertySymbolCoder_read_tree(2, rac.stream)

NextRT ==
    \/ EncodeTree
    \/ DecodeBack

SpecRT == InitRT /\ [][NextRT]_vars

---------------------------------------------------------------------------
(* read_tree on streams long enough to exhaust the range of every property *)

\* streams that can hold a path splitting on every value of every property
\* and one more property symbol
DeepStreams == [1..(StreamLen + 3) -> RawSyms]

DecodeDeep ==
    /\ call.op = "none"
    /\ \E s \in DeepStreams : MetaPropertySymbolCoder_read_tree(1, s)

NextDeep == DecodeDeep

SpecDeep == Init /\ [][NextDeep]_vars

---------------------------------------------------------------------------
(* Two coders in one decoding session *)

\* the streams whose symbols past the second are zero: a tree of one leaf, or
\* of one inner node that splits its property at the lower end of its range
ShortStreams == { s \in Streams : \A k \in 3..StreamLen : s[k] = 0 }

\* both trees are read off the stream, heap[1] first
DecodeTrees ==
    \E s \in ShortStreams :
        \/ /\ call.op = "none"
           /\ MetaPropertySymbolCoder_read_tree(1, s)
        \/ /\ call.op = "read_tree" /\ call.inst = 1 /\ meta.ret
           /\ MetaPropertySymbolCoder_read_tree(2, s)

\* the first coder is built over heap[1], the second over either tree
ConstructBoth ==
    \/ /\ call.op = "read_tree" /\ call.inst = 2 /\ meta.ret
       /\ FinalPropertySymbolCoder_new(1, 1)
    \/ /\ call.op = "new" /\ call.inst = 1
       /\ \E t \in TreeIds : FinalPropertySymbolCoder_new(2, t)

\* read_int calls that reach find_leaf, on the two coders in any order
ReadIntBy ==
    /\ \A i \in Inst : coder[i].built
    /\ \E i \in Inst : \E properties \in PropertyVectors :
       \E range_ \in { m \in MinMaxPairs : m[1] < m[2] } : \E s \in BitChunks :
          FinalPropertySymbolCoder_read_int(i, properties, range_[1], range_[2], s)

NextIndep ==
    \/ DecodeTrees
    \/ ConstructBoth
    \/ ReadIntBy

SpecIndep == Init /\ [][NextIndep]_vars

---------------------------------------------------------------------------
(* Claims about the YCoCg transform *)

\* C1: YCoCg round-trip. For every source range init accepts and every pixel
\* with each channel in [0, srcmax[k]], data() followed by invData()
\* (clamp included) gives back exactly the original (R,G,B).
C1_RoundTrip == tstate = "inverse" => image = orig

C1_Witness ==
    /\ tstate = "inverse"
    /\ image = orig
    /\ par = 2
    /\ orig[1] > orig[3] /\ orig[2] > 0
    /\ ranges.max[2] < ranges.max[1]

\* C2: dependent-range soundness. The (minv, maxv) that minmax hands to the
\* coder for plane 1 (given Y) and plane 2 (given Y, Co) of a forward-transformed
\* pixel always contains the value of that plane.
C2_Sound ==
    /\ mm.p = 1 => mm.minv <= mm.pp[2] /\ mm.pp[2] <= mm.maxv
    /\ mm.p = 2 => mm.minv <= mm.pp[3] /\ mm.pp[3] <= mm.maxv

C2_Witness ==
    /\ mm.p = 2
    /\ crPar = 2
    /\ mm.pp[1] >= 3 * crPar
    /\ mm.pp[3] = mm.minv
    /\ mm.minv < mm.maxv

\* C3: YCoCg range closure. Every forward-transformed pixel has
\* Y in [0, 4 par - 1], Co and Cg in [-4 par, 4 par - 2], which are the static
\* bounds min(p)..max(p) of ColorRangesYCoCg, and Y passes the asserts of the
\* get_* functions.
C3_Closure ==
    tstate = "forward" =>
        /\ 0 <= image[1] /\ image[1] <= 4 * par - 1
        /\ -4 * par <= image[2] /\ image[2] <= 4 * par - 2
        /\ -4 * par <= image[3] /\ image[3] <= 4 * par - 2
        /\ \A p \in 0..2 : /\ ColorRangesYCoCg_min(p) <= image[p + 1]
                            /\ image[p + 1] <= ColorRangesYCoCg_max(p)
        /\ AssertY(crPar, image[1])

C3_Witness ==
    /\ tstate = "forward"
    /\ par = 2
    /\ image[1] = 4 * par - 1

\* C10: dependent-range tightness. With R, G, B ranging over [0, 4 par - 1]:
\* for every Y some pixel has that Y and Co = get_min_co(par, Y), and some
\* pixel has Co = get_max_co(par, Y); for every Co between those two some
\* pixel has that (Y, Co) and Cg = get_min_cg(par, Y, Co), and some pixel has
\* Cg = get_max_cg(par, Y, Co).
Realised(y, co, cg, useCg) ==
    \E r \in 0..(4 * crPar - 1) : \E g \in 0..(4 * crPar - 1) : \E b \in 0..(4 * crPar - 1) :
        /\ Forward(<<r, g, b>>)[1] = y
        /\ Forward(<<r, g, b>>)[2] = co
        /\ useCg => Forward(<<r, g, b>>)[3] = cg

C10_Tight ==
    /\ mm.p = 1 =>
          /\ Realised(mm.pp[1], mm.minv, 0, FALSE)
          /\ Realised(mm.pp[1], mm.maxv, 0, FALSE)
    /\ (/\ mm.p = 2
        /\ get_min_co(crPar, mm.pp[1]) <= mm.pp[2]
        /\ mm.pp[2] <= get_max_co(crPar, mm.pp[1])) =>
          /\ Realised(mm.pp[1], mm.pp[2], mm.minv, TRUE)
          /\ Realised(mm.pp[1], mm.pp[2], mm.maxv, TRUE)

C10_Witness ==
    /\ mm.p = 2
    /\ crPar = 2
    /\ tstate = "query"
    /\ mm.pp[1] >= 3 * crPar
    /\ mm.pp[2] = -1
    /\ mm.minv < mm.maxv


---------------------------------------------------------------------------
(* Claims about the MANIAC coders *)

\* the coder of the decoding session, its tree, and its leaf store
TheTree == heap[coder[1].inner_node]
TheTreeNext == heap'[coder[1].inner_node]

\* the node find_leaf(properties) visits: the first node on the routed path
\* that is a leaf or an inner node not yet activated
RECURSIVE StopFrom(_, _, _)
StopFrom(pos, tree, properties) ==
    LET n == At(tree, pos)
    IN  IF n.property = -1 \/ n.count >= 0 THEN pos
        ELSE IF At(properties, n.property) > n.splitval
        THEN StopFrom(n.childID, tree, properties)
        ELSE StopFrom(n.childID + 1, tree, properties)

\* a step in which a read_int call went through find_leaf
IsVisit ==
    /\ coder[1].built
    /\ call'.op \in {"read_int", "read_bits"}
    /\ rac'.pos > rac.pos

\* the fields of tree that differ between two trees of the same length
Changed(t1, t2) ==
    { <<k, f>> \in (0..(Len(t1) - 1)) \X {"property", "count", "splitval", "childID", "leafID"} :
        At(t1, k)[f] # At(t2, k)[f] }

\* C5: a visit of a pending inner node with count > 0 only decrements its
\* count and resolves to leaf_node[leafID]; the visit with count = 0 makes the
\* count -1, grows the leaf store by exactly one entry and gives the children
\* the old leafID (childID) and the new index (childID+1); activated nodes
\* (count < 0) are routed through by splitval and their count stays -1.
C5_Lifecycle ==
    [][ IsVisit =>
          LET q == StopFrom(0, TheTree, call'.properties)
              n == At(TheTree, q)
              size == Len(coder[1].leaf_node)
              size2 == Len(coder'[1].leaf_node)
          IN  /\ Len(TheTreeNext) = Len(TheTree)
              /\ \A k \in 0..(Len(TheTree) - 1) :
                    /\ At(TheTreeNext, k).count >= -1
                    /\ At(TheTree, k).count < 0 => At(TheTreeNext, k).count = -1
              /\ n.property = -1 =>
                    /\ Changed(TheTree, TheTreeNext) = {}
                    /\ size2 = size
                    /\ call'.leaf = n.leafID
              /\ (n.property # -1 /\ n.count > 0) =>
                    /\ Changed(TheTree, TheTreeNext) = { <<q, "count">> }
                    /\ At(TheTreeNext, q).count = n.count - 1
                    /\ size2 = size
                    /\ call'.leaf = n.leafID
              /\ (n.property # -1 /\ n.count = 0) =>
                    /\ Changed(TheTree, TheTreeNext)
                          \subseteq { <<q, "count">>, <<n.childID, "leafID">>,
                                      <<n.childID + 1, "leafID">> }
                    /\ At(TheTreeNext, q).count = -1
                    /\ size2 = size + 1
                    /\ At(TheTreeNext, n.childID).leafID = n.leafID
                    /\ At(TheTreeNext, n.childID + 1).leafID = size
                    /\ call'.leaf = IF At(call'.properties, n.property) > n.splitval
                                    THEN n.leafID ELSE size
      ]_vars

\* the root has been activated and a later visit was routed through it to an
\* inner child, whose count (at least CONTEXT_TREE_MIN_COUNT off the stream)
\* that visit brought down to 0
C5_Witness ==
    /\ coder[1].built
    /\ call.op \in {"read_int", "read_bits"}
    /\ At(TheTree, 0).count = -1
    /\ Len(coder[1].leaf_node) = 2
    /\ \E k \in {At(TheTree, 0).childID, At(TheTree, 0).childID + 1} :
          /\ At(TheTree, k).property # -1
          /\ At(TheTree, k).count = 0

\* C6: when find_leaf splits, the leaf store it returns into (before a bit of
\* the symbol is coded) has the new last entry equal to the old leaf's entry,
\* which is the entry the split node had before the call; every other entry
\* is as before the call.
C6_Preservation ==
    [][ (IsVisit /\ Len(coder'[1].leaf_node) = Len(coder[1].leaf_node) + 1) =>
          LET q == StopFrom(0, TheTree, call'.properties)
              old_leaf == At(TheTree, q).leafID
              new_leaf == Len(coder[1].leaf_node)
          IN  /\ Len(call'.found) = new_leaf + 1
              /\ At(call'.found, new_leaf) = At(call'.found, old_leaf)
              /\ At(call'.found, old_leaf) = At(coder[1].leaf_node, old_leaf)
              /\ \A k \in 0..(new_leaf - 1) :
                    At(call'.found, k) = At(coder[1].leaf_node, k)
      ]_vars

\* the second symbol read after the tree (counts off the stream are at least
\* CONTEXT_TREE_MIN_COUNT, so no split comes sooner) met the split of the
\* root, whose chances had moved off their initial value
C6_Witness ==
    /\ coder[1].built
    /\ call.op \in {"read_int", "read_bits"}
    /\ rac.pos = meta.to + 2
    /\ Len(call.found) = 2
    /\ At(call.found, 1) # NewChances
    /\ At(call.found, 1) = At(call.found, 0)

\* C7: when read_subtree meets a property whose subrange is exhausted,
\* read_tree returns false and the offending property symbol is the last
\* symbol read from the stream.
C7_Rejection ==
    meta.failAt # -1 =>
        /\ ~meta.ret
        /\ meta.to = meta.failAt

\* the failure happened below the root, after two children had been allocated
C7_Witness ==
    /\ call.op = "read_tree"
    /\ meta.failAt # -1
    /\ meta.depth >= 2
    /\ meta.failAt >= meta.from + 3
    /\ Len(heap[1]) >= 3

\* C8: read_int(properties, min, max) with min = max returns min and changes
\* neither the RAC, nor any node of the tree, nor the leaf store.
C8_ShortCircuit ==
    [][ (call'.op = "read_int" /\ call'.min = call'.max) =>
          /\ call'.ret = call'.min
          /\ UNCHANGED <<rac, heap, coder, meta, ub>>
      ]_vars

\* a degenerate call made while the root is an inner node one visit away from
\* its split
C8_Witness ==
    /\ call.op = "read_int"
    /\ call.min = call.max
    /\ call.ret = call.min
    /\ At(TheTree, 0).property # -1
    /\ At(TheTree, 0).count = 0

\* C4: a tree in the serialization convention, written by write_tree and read
\* back by read_tree: read_tree returns true, consumes exactly the symbols
\* written, and the tree read equals the tree written at every index in
\* property, count, splitval and childID.
C4_RoundTrip ==
    (call.op = "read_tree" /\ rac.stream # << >>) =>
        /\ meta.ret
        /\ meta.to = Len(rac.stream)
        /\ Len(heap[2]) = Len(heap[1])
        /\ \A k \in 1..Len(heap[1]) :
              /\ heap[2][k].property = heap[1][k].property
              /\ heap[2][k].count = heap[1][k].count
              /\ heap[2][k].splitval = heap[1][k].splitval
              /\ heap[2][k].childID = heap[1][k].childID

\* a tree of two inner nodes, the second in the "> splitval" subtree of the
\* root and splitting the root's property again, has been written and read
\* into a Tree that held other nodes before
C4_Witness ==
    /\ call.op = "read_tree"
    /\ Len(rac.stream) >= 4
    /\ Len(heap[2]) = 5
    /\ heap[1][1].property = 0
    /\ heap[1][2].property = 0
    /\ heap[1][2].childID = 3
    /\ heap[2] = heap[1]

\* what coder i observes is what it would observe had the calls on the other
\* coder not happened: the nodes of its tree, the size of its leaf store, and
\* the leaf its last call resolved to
SameAsAlone(i) ==
    coder[i].built =>
        /\ heap[coder[i].inner_node] = solo[i].tree
        /\ Len(coder[i].leaf_node) = Len(solo[i].leaf_node)
        /\ (call.op = "read_int" /\ call.inst = i /\ call.min # call.max) =>
              call.leaf = solo[i].leaf

\* C9 as stated: two coders are independent whatever Tree each was
\* constructed over, and no call reaches outside a leaf store.
C9_AnyTrees ==
    /\ ~ub
    /\ \A i \in Inst : SameAsAlone(i)

\* C9: two coders constructed over two different Tree objects are
\* independent: under every interleaving of their read_int calls each
\* observes the counts, leafIDs and leaves it would observe alone.
C9_DistinctTrees ==
    (\A i \in Inst : coder[i].built) /\ coder[1].treeIn # coder[2].treeIn =>
        /\ ~ub
        /\ \A i \in Inst : SameAsAlone(i)

\* the two coders are over different trees, both with an inner root; each has
\* been called, and the second has split its root
C9_Witness ==
    /\ \A i \in Inst : coder[i].built
    /\ coder[1].treeIn # coder[2].treeIn
    /\ call.op = "read_int" /\ call.min # call.max /\ call.inst = 1
    /\ At(heap[1], 0).property # -1
    /\ At(heap[2], 0).property # -1
    /\ At(heap[2], 0).count = -1
    /\ Len(coder[2].leaf_node) = 2
    /\ Len(solo[1].leaf_node) = 1

---------------------------------------------------------------------------
(* Further claims about the YCoCg transform *)

\* the source is one init refuses: fewer than 3 planes, a negative minimum
\* among planes 0..2, or a plane among 0..2 of a single value
Refused(r) ==
    \/ r.numPlanes < 3
    \/ \E k \in 1..3 : r.min[k] < 0
    \/ \E k \in 1..3 : r.min[k] = r.max[k]

\* C11: init returns false exactly for a refused source and then leaves par
\* and ranges as they were; otherwise it returns true with
\* par = max(srcmax[0..2])/4 + 1, and every source maximum is at most 4*par-1.
C11_Applicability ==
    [][ (tstate = "new" /\ tstate' # "new") =>
          /\ tstate' \in {"rejected", "ready"}
          /\ (tstate' = "rejected") <=> Refused(srcRanges)
          /\ Refused(srcRanges) => UNCHANGED <<par, ranges>>
          /\ ~Refused(srcRanges) =>
                LET M == Max2(Max2(srcRanges.max[1], srcRanges.max[2]), srcRanges.max[3])
                IN  /\ par' = (M \div 4) + 1
                    /\ ranges' = srcRanges
                    /\ \A k \in 1..3 : srcRanges.max[k] <= 4 * par' - 1
      ]_vars

\* init has refused a source of 3 planes, none negative, of which only plane
\* 1 has a single value
C11_Witness ==
    /\ tstate = "rejected"
    /\ srcRanges.numPlanes = 3
    /\ \A k \in 1..3 : srcRanges.min[k] >= 0
    /\ srcRanges.min[2] = srcRanges.max[2]
    /\ srcRanges.min[1] < srcRanges.max[1]
    /\ srcRanges.min[3] < srcRanges.max[3]
    /\ par = 0

---------------------------------------------------------------------------
(* Further claims about the MANIAC coders *)

\* a step that is a read_int call (either overload, degenerate or not)
IsRead ==
    /\ coder[1].built
    /\ call'.op \in {"read_int", "read_bits"}

\* the nodes a step activates: count 0 before, -1 after
Activated ==
    { k \in 0..(Len(TheTree) - 1) :
        At(TheTree, k).count = 0 /\ At(TheTreeNext, k).count = -1 }

\* C12: a read_int call changes neither the number of nodes nor any node's
\* property, splitval or childID; the leaf store grows by one on a call that
\* splits and by zero on any other; of the tree the call changes at most the
\* count of one node and, on a split, the leafID of that node's two children.
C12_Monotonic ==
    [][ IsRead =>
          LET size  == Len(coder[1].leaf_node)
              size2 == Len(coder'[1].leaf_node)
              ch    == Changed(TheTree, TheTreeNext)
              counts == { c \in ch : c[2] = "count" }
          IN  /\ Len(TheTreeNext) = Len(TheTree)
              /\ \A c \in ch : c[2] \in {"count", "leafID"}
              /\ Cardinality(counts) <= 1
              /\ Cardinality(Activated) <= 1
              /\ size2 = size + Cardinality(Activated)
              /\ \A c \in ch : c[2] = "leafID" =>
                    \E k \in Activated :
                        /\ <<k, "count">> \in counts
                        /\ c[1] \in {At(TheTree, k).childID, At(TheTree, k).childID + 1}
      ]_vars

\* three symbols have been read after the tree: the root was visited while
\* pending, then split, then routed through; the leaf store has two entries
\* and the root's second child holds the new one
C12_Witness ==
    /\ coder[1].built
    /\ call.op \in {"read_int", "read_bits"}
    /\ rac.pos = meta.to + 3
    /\ At(TheTree, 0).count = -1
    /\ Len(coder[1].leaf_node) = 2
    /\ At(TheTree, At(TheTree, 0).childID + 1).leafID = 1
    /\ At(TheTree, At(TheTree, 0).childID).leafID = 0

\* C13: whatever the three planes held, every pixel invData writes has
\* 0 <= R <= srcmax[0], 0 <= G <= srcmax[1] and 0 <= B <= srcmax[2].
C13_Clamp ==
    tstate = "inverse" =>
        \A k \in 1..3 : 0 <= image[k] /\ image[k] <= ranges.max[k]

\* the planes held a Y above get_max_y and Co, Cg outside their static
\* bounds; R and B were clipped from above and G from below
C13_Witness ==
    /\ tstate = "inverse"
    /\ orig[1] > get_max_y(par)
    /\ orig[2] > 4 * par
    /\ orig[3] > 4 * par
    /\ orig[1] + Shr1(orig[3] + 2) + Shr1(orig[2] + 2) > ranges.max[1]
    /\ orig[1] - Shr1(orig[3] + 1) < 0
    /\ image[1] = ranges.max[1]
    /\ image[2] = 0

\* the subtree at pos keeps every splitval inside the range of its property
\* as narrowed by the ancestors: subrange is the configured range narrowed on
\* the way down, to splitval+1.. below childID and to ..splitval below childID+1
RECURSIVE WithinRange(_, _, _)
WithinRange(pos, tree, subrange) ==
    LET n == At(tree, pos)
    IN  n.property = -1 \/
        LET lo == subrange[n.property + 1][1]
            hi == subrange[n.property + 1][2]
        IN  /\ lo < hi
            /\ lo <= n.splitval /\ n.splitval <= hi - 1
            /\ WithinRange(n.childID, tree,
                           [subrange EXCEPT ![n.property + 1][1] = n.splitval + 1])
            /\ WithinRange(n.childID + 1, tree,
                           [subrange EXCEPT ![n.property + 1][2] = n.splitval])

\* C14: in a tree for which read_tree returned true every inner node's
\* splitval lies in [lo, hi-1], [lo, hi] being the configured range of its
\* property narrowed by exactly the ancestors that split on that property;
\* so lo < hi at every inner node.
C14_SplitInRange ==
    (meta.called /\ meta.ret) => WithinRange(0, heap[1], range)

\* read_tree returned true for a tree whose root splits property 0 at 1 and
\* whose "<= splitval" child splits property 0 again, within [0, 1]
C14_Witness ==
    /\ meta.called /\ meta.ret
    /\ At(heap[1], 0).property = 0
    /\ At(heap[1], 0).splitval = 1
    /\ At(heap[1], At(heap[1], 0).childID + 1).property = 0
    /\ At(heap[1], At(heap[1], 0).childID + 1).splitval = 0

\* the inner nodes of a tree, by index
InnerNodes(tree) == { i \in 0..(Len(tree) - 1) : At(tree, i).property # -1 }

\* the subtree at pos laid out in pre-order when size nodes are allocated on
\* reaching it: the number of nodes allocated once it is complete, or -1 when
\* a pair of children is not where pre-order (childID subtree first) puts it
RECURSIVE PreOrder(_, _, _)
PreOrder(pos, tree, size) ==
    LET n == At(tree, pos)
    IN  IF n.property = -1 THEN size
        ELSE IF n.childID # size \/ size + 2 > Len(tree) THEN -1
        ELSE LET a == PreOrder(n.childID, tree, size + 2)
             IN  IF a = -1 THEN -1 ELSE PreOrder(n.childID + 1, tree, a)

\* C15: after a read_tree call that returned true, whatever the tree held
\* before, the tree has 2k+1 nodes for k inner nodes, every inner node i has
\* i < childID and childID+1 inside the tree, every node but the root is a
\* child of exactly one inner node, and the pairs of children are allocated
\* in pre-order, the "> splitval" subtree first.
C15_Layout ==
    (meta.called /\ meta.ret) =>
        LET tree == heap[1]
        IN  /\ Len(tree) = 2 * Cardinality(InnerNodes(tree)) + 1
            /\ \A i \in InnerNodes(tree) :
                  /\ i < At(tree, i).childID
                  /\ At(tree, i).childID + 1 < Len(tree)
            /\ \A j \in 1..(Len(tree) - 1) :
                  Cardinality({ i \in InnerNodes(tree) :
                                  j \in {At(tree, i).childID, At(tree, i).childID + 1} }) = 1
            /\ PreOrder(0, tree, 1) = Len(tree)

\* read_tree returned true for a tree of two inner nodes, the second being
\* the "<= splitval" child of the root: its pair comes after the root's
C15_Witness ==
    /\ call.op = "read_tree"
    /\ meta.ret
    /\ Len(heap[1]) = 5
    /\ At(heap[1], 0).childID = 1
    /\ At(heap[1], 1).property = -1
    /\ At(heap[1], 2).property # -1
    /\ At(heap[1], 2).childID = 3

\* C16: the visit that splits a node resolves to the old leaf when
\* properties[property] > splitval and to the new leaf otherwise; a find_leaf
\* call with the same properties right after it is routed to childID when
\* properties[property] > splitval and to childID+1 otherwise, and resolves
\* to the same leaf index when that child is a leaf or pending with count > 0.
C16_RoutingConsistent ==
    [][ (IsVisit /\ Activated # {}) =>
          \A q \in Activated :
            LET n     == At(TheTree, q)
                props == call'.properties
                gt    == At(props, n.property) > n.splitval
                child == IF gt THEN n.childID ELSE n.childID + 1
                c     == At(TheTreeNext, child)
                again == find_leaf(TheTreeNext, coder'[1].leaf_node, props)
            IN  /\ call'.leaf = IF gt THEN n.leafID ELSE Len(coder[1].leaf_node)
                /\ StopFrom(0, TheTreeNext, props) = child
                /\ (c.property = -1 \/ c.count > 0) =>
                      /\ ~again.ub
                      /\ again.leaf = call'.leaf
      ]_vars

\* the root has just been split by a call whose property was not above the
\* splitval: the call resolved to the new leaf, and the child it will be
\* routed to is a pending inner node
C16_Witness ==
    /\ coder[1].built
    /\ call.op \in {"read_int", "read_bits"}
    /\ rac.pos = meta.to + 2
    /\ At(TheTree, 0).count = -1
    /\ Len(call.found) = 2
    /\ call.leaf = 1
    /\ At(call.properties, At(TheTree, 0).property) <= At(TheTree, 0).splitval
    /\ At(TheTree, At(TheTree, 0).childID + 1).property # -1
    /\ At(TheTree, At(TheTree, 0).childID + 1).count > 0

\* C17: for Y in [0, 4*par-1], a Co outside [get_min_co, get_max_co] makes
\* get_min_cg return 8*par and get_max_cg return -8*par; a Co inside it has
\* get_min_co <= get_max_co, get_min_cg <= get_max_cg and both Cg bounds in
\* [-4*par, 4*par-2].
C17_EmptyForInvalidCo ==
    (tstate = "query" /\ mm.p = 2) =>
        LET y  == mm.pp[1]
            co == mm.pp[2]
            lo == get_min_co(crPar, y)
            hi == get_max_co(crPar, y)
        IN  IF co < lo \/ co > hi
            THEN /\ mm.minv = 8 * crPar
                 /\ mm.maxv = -8 * crPar
                 /\ mm.minv > 4 * crPar - 2
                 /\ mm.maxv < -4 * crPar
            ELSE /\ lo <= hi
                 /\ mm.minv <= mm.maxv
                 /\ -4 * crPar <= mm.minv /\ mm.minv <= 4 * crPar - 2
                 /\ -4 * crPar <= mm.maxv /\ mm.maxv <= 4 * crPar - 2

\* the Cg range was asked for a Co that the static bounds of plane 1 allow
\* but the Y of the pixel does not
C17_Witness ==
    /\ tstate = "query"
    /\ mm.p = 2
    /\ mm.pp[1] >= 3 * crPar
    /\ mm.pp[2] > get_max_co(crPar, mm.pp[1])
    /\ mm.pp[2] <= 4 * crPar - 2
    /\ mm.minv = 8 * crPar
    /\ mm.maxv = -8 * crPar

\* the span of property p (0-based) and the sum of all spans
Span(p) == range[p + 1][2] - range[p + 1][1]

RECURSIVE SumSpans(_)
SumSpans(n) == IF n = 0 THEN 0 ELSE Span(n - 1) + SumSpans(n - 1)

\* the largest number of nodes splitting on p along a path from pos down; a
\* node whose children were never allocated (childID not after pos) splits
\* nothing
RECURSIVE MaxOnPath(_, _, _)
MaxOnPath(pos, tree, p) ==
    LET n == At(tree, pos)
    IN  IF n.property = -1 \/ n.childID <= pos THEN 0
        ELSE (IF n.property = p THEN 1 ELSE 0)
             + Max2(MaxOnPath(n.childID, tree, p), MaxOnPath(n.childID + 1, tree, p))

\* C18: whatever the stream, a path of the tree read_subtree builds has at
\* most range[p].second - range[p].first nodes splitting on p, read_subtree
\* never recurses more levels below the root call than the sum of the spans,
\* and read_tree returns.
C18_BoundedDepth ==
    call.op = "read_tree" =>
        /\ meta.called
        /\ \A p \in 0..(nb_properties - 1) : MaxOnPath(0, heap[1], p) <= Span(p)
        /\ meta.depth - 1 <= SumSpans(nb_properties)
        /\ SumSpans(nb_properties) <= nb_properties * Max2(Span(0), Span(1))

\* a path that splits on every value of both properties was built, and the
\* property symbol after it was refused
C18_Witness ==
    /\ call.op = "read_tree"
    /\ ~meta.ret
    /\ meta.depth - 1 = SumSpans(nb_properties)
    /\ \A p \in 0..(nb_properties - 1) : MaxOnPath(0, heap[1], p) = Span(p)

\* the live contexts below pos: the nodes reached through activated nodes
\* only that are a leaf or an inner node not yet activated
RECURSIVE Live(_, _)
Live(pos, tree) ==
    LET n == At(tree, pos)
    IN  IF n.property = -1 \/ n.count >= 0 THEN {pos}
        ELSE Live(n.childID, tree) \cup Live(n.childID + 1, tree)

\* C19: for a coder over a tree fresh from a successful read_tree, after any
\* read_int calls the live contexts have pairwise distinct leafIDs that are
\* exactly 0..leaf_node.size()-1, leaf_node.size() is 1 + the number of
\* activated nodes, and find_leaf never indexed leaf_node out of bounds.
C19_Bijection ==
    coder[1].built =>
        LET live == Live(0, TheTree)
            size == Len(coder[1].leaf_node)
        IN  /\ ~ub
            /\ \A a \in live : \A b \in live :
                  a # b => At(TheTree, a).leafID # At(TheTree, b).leafID
            /\ { At(TheTree, a).leafID : a \in live } = 0..(size - 1)
            /\ size = 1 + Cardinality({ k \in 0..(Len(TheTree) - 1) :
                                          At(TheTree, k).count < 0 })

\* the root is activated; its "<= splitval" child, a pending inner node, holds
\* the new leaf and has been visited since
C19_Witness ==
    /\ coder[1].built
    /\ call.op \in {"read_int", "read_bits"}
    /\ rac.pos = meta.to + 3
    /\ At(TheTree, 0).count = -1
    /\ Cardinality(Live(0, TheTree)) = 2
    /\ At(TheTree, At(TheTree, 0).childID + 1).property # -1
    /\ At(TheTree, At(TheTree, 0).childID + 1).leafID = 1
    /\ call.leaf = 1

\* the depth of the subtree at pos: the largest number of inner nodes on a
\* path from pos down
RECURSIVE TreeDepth(_, _)
TreeDepth(pos, tree) ==
    LET n == At(tree, pos)
    IN  IF n.property = -1 THEN 0
        ELSE 1 + Max2(TreeDepth(n.childID, tree), TreeDepth(n.childID + 1, tree))

\* C20: on a tree read by a successful read_tree, whatever calls came before,
\* a find_leaf call with any properties vector of length nb_properties visits
\* nodes at strictly increasing indices inside the tree, every inner node it
\* meets has its property in 0..nb_properties-1, it indexes nothing out of
\* bounds, and it returns after at most (tree depth + 1) nodes.
C20_FindLeafBounded ==
    coder[1].built =>
        /\ ~ub
        /\ \A properties \in PropertyVectors :
              LET f == find_leaf(TheTree, coder[1].leaf_node, properties)
              IN  /\ ~f.ub
                  /\ Len(properties) = nb_properties
                  /\ f.path[1] = 0
                  /\ \A k \in 1..Len(f.path) :
                        /\ f.path[k] < Len(TheTree)
                        /\ k > 1 => f.path[k - 1] < f.path[k]
                        /\ At(TheTree, f.path[k]).property \in -1..(nb_properties - 1)
                  /\ Len(f.path) <= TreeDepth(0, TheTree) + 1

\* the root is activated and a call is routed through it to its
\* "<= splitval" child: two nodes visited, at indices 0 and childID+1
C20_Witness ==
    /\ coder[1].built
    /\ At(TheTree, 0).count = -1
    /\ At(TheTree, At(TheTree, 0).childID + 1).property # -1
    /\ \E properties \in PropertyVectors :
          find_leaf(TheTree, coder[1].leaf_node, properties).path
              = << 0, At(TheTree, 0).childID + 1 >>

====
